---- MODULE Spec2Model ----
(***************************************************************************)
(* Model of app.py, the Streamlit "Code Comment Generator".                *)
(*                                                                         *)
(* Text is modelled as a sequence of tokens (each token a string).  The    *)
(* Python value None is the record NoneValue; a Python str s is Str(s).    *)
(* Temperatures are counted in hundredths (0.30 is 30, 0.95 is 95).        *)
(* One behaviour of the model is a sequence of script runs: Streamlit      *)
(* re-executes main() from the top on every user interaction.              *)
(***************************************************************************)
EXTENDS Integers, Sequences, FiniteSets, TLC

\* ---------------------------------------------------------------- bounds
MaxLen == 2          \* longest snippet typed into the text area
MaxRespLen == 2      \* longest text the remote service answers with
MaxErrLen == 1       \* longest str(e) of an exception

\* ------------------------------------------------------ program constants
TempLow == 30
TempHigh == 95
MaxOutputTokens == 2048
BarSteps == 100
CallIndex == 98

\* ------------------------------------------------------------- text sets
RECURSIVE SeqsUpTo(_, _)
SeqsUpTo(S, n) ==
  IF n = 0 THEN {<<>>}
  ELSE LET shorter == SeqsUpTo(S, n - 1)
       IN  shorter \cup {Append(s, c) : s \in {t \in shorter : Len(t) = n - 1}, c \in S}

\* "{code}" is the literal text {code} typed by the user.
SnippetChars == {"x", "{code}"}
Snippets == SeqsUpTo(SnippetChars, MaxLen)
ServiceTexts == SeqsUpTo({"r"}, MaxRespLen)
ErrorTexts == SeqsUpTo({"e"}, MaxErrLen)
ExceptionClasses == {"ValueError", "RuntimeError"}
Credentials == {"missing", "empty", "valid", "rejected"}

NoneValue == [kind |-> "None", text |-> <<>>]
Str(s) == [kind |-> "str", text |-> s]

VARIABLES
  credential,          \* st.secrets["general"]["GOOGLE_API_KEY"]
  cache,               \* st.cache_resource entry of load_models
  pc,                  \* position of the script in main()
  button,              \* which st.button returned True in this run
  user_input_text,     \* value of the text area
  creative_control,    \* value of the radio
  config,              \* result of generative_config()
  branch,              \* the button branch being executed
  percent_complete,    \* loop index of the progress loop
  my_bar,              \* the progress bar element
  response,            \* local variable response of main()
  prompt,              \* local variable prompt of get_gemini_response
  model,               \* local variable model of get_gemini_response
  requests,            \* generate_content calls issued in this run
  remote_result,       \* what the remote call did
  ggr_calls,           \* invocations of get_gemini_response in this run
  response_placeholder,\* calls made on response_placeholder in this run
  errors               \* st.error messages shown in this run

vars == <<credential, cache, pc, button, user_input_text, creative_control,
          config, branch, percent_complete, my_bar, response, prompt, model,
          requests, remote_result, ggr_calls, response_placeholder, errors>>

\* --------------------------------------------------------- pure functions

\* f-string of generate_prompt: literal text around one replacement field.
Preamble == "You are an AI code comment generator for multiple languages. [...] Here is the code snippet for which code comments need to be generated: "
Epilogue == "    "
Lit(s) == [kind |-> "lit", s |-> s]
Field(n) == [kind |-> "field", s |-> n]
PromptTemplate == <<Lit(Preamble), Field("code"), Lit(Epilogue)>>

RECURSIVE Format(_, _)
Format(template, code) ==
  IF template = <<>> THEN <<>>
  ELSE LET h == Head(template)
       IN  (IF h.kind = "field" THEN code ELSE <<h.s>>) \o Format(Tail(template), code)

generate_prompt_first_line(code) ==
  Format(PromptTemplate, IF code = <<>> THEN <<>> ELSE <<Head(code)>>)

generate_prompt(code) == Format(PromptTemplate, code)

generative_config_swapped(cc) ==
  [temperature |-> IF cc = "Low" THEN TempHigh ELSE TempLow,
   max_output_tokens |-> MaxOutputTokens]

generative_config(cc) ==
  [temperature |-> IF cc = "Low" THEN TempLow ELSE TempHigh,
   max_output_tokens |-> MaxOutputTokens]

HarmCategories == {"HARASSMENT", "HATE_SPEECH", "SEXUALLY_EXPLICIT", "DANGEROUS_CONTENT"}
safety_settings == [c \in HarmCategories |-> "BLOCK_NONE"]

\* f"An error occurred: {e}"
ErrorMessage_bare(e) == e

ErrorMessage(e) == <<"An error occurred: ">> \o e

\* except Exception: every exception class the remote call raises is caught
Caught_ValueErrorOnly(cls) == cls = "ValueError"

Caught(cls) == cls \in ExceptionClasses

\* return response.text
ReturnText_truncated(text) == Str(IF text = <<>> THEN <<>> ELSE <<Head(text)>>)

ReturnText(text) == Str(text)

NotLoadedMessage == <<"Model not loaded properly. Check your API key and configuration.">>

\* body of load_models for a given credential: the handle and st.error texts
load_models_body(cred) ==
  CASE cred = "empty"    -> [handle |-> "None",
                             shown |-> <<<<"API key is empty. Please check your secrets.toml file.">>>>]
    [] cred = "missing"  -> [handle |-> "None",
                             shown |-> <<<<"API key not found in secrets.toml. Please check your secrets configuration.">>>>]
    [] cred = "rejected" -> [handle |-> "None", shown |-> <<ErrorMessage(<<"e">>)>>]
    [] OTHER             -> [handle |-> "gemini-pro", shown |-> <<>>]

\* @st.cache_resource: the body runs on the first call only; the stored
\* result (with the elements it drew) is replayed afterwards.
load_models(c, cred) == IF c.set THEN c.value ELSE load_models_body(cred)

Heading(b) ==
  IF b = "comments" THEN "The Response is" ELSE "The Line-by-Line Explanation is"

ProgressText(b) ==
  IF b = "comments" THEN "Generating Code Comments..."
  ELSE "Generating Line-by-Line Explanation..."

IsCallStep_retry(i) == i >= CallIndex

IsCallStep_early(i) == i = CallIndex - 1

IsCallStep(i) == i = CallIndex

AfterBranch(b) == IF b = "comments" THEN "if_explain" ELSE "footer"

NoBar == [state |-> "absent", value |-> 0, text |-> ""]
NoRemote == [kind |-> "none", cls |-> "", payload |-> <<>>]

\* ------------------------------------------------------------------ Init
Init ==
  /\ credential \in Credentials
  /\ cache = [set |-> FALSE, value |-> [handle |-> "None", shown |-> <<>>]]
  /\ pc = "idle"
  /\ button = "none"
  /\ user_input_text = <<>>
  /\ creative_control = "Low"
  /\ config = generative_config("Low")
  /\ branch = "none"
  /\ percent_complete = 0
  /\ my_bar = NoBar
  /\ response = NoneValue
  /\ prompt = <<>>
  /\ model = "unset"
  /\ requests = <<>>
  /\ remote_result = NoRemote
  /\ ggr_calls = 0
  /\ response_placeholder = <<>>
  /\ errors = <<>>

\* --------------------------------------------------------------- actions

\* A user interaction starts a run of main(): lines 210-220.
Rerun(text, cc, btn) ==
  /\ pc = "idle"
  /\ pc' = "if_generate"
  /\ user_input_text' = text
  /\ creative_control' = cc
  /\ config' = generative_config(cc)
  /\ button' = btn
  /\ branch' = "none"
  /\ percent_complete' = 0
  /\ my_bar' = NoBar
  /\ response' = NoneValue
  /\ prompt' = <<>>
  /\ model' = "unset"
  /\ requests' = <<>>
  /\ remote_result' = NoRemote
  /\ ggr_calls' = 0
  /\ response_placeholder' = <<>>
  /\ errors' = <<>>
  /\ UNCHANGED <<credential, cache>>

\* if generate_comments / if explain_code: lines 222-225 and 236-239.
EnterBranch(at, b) ==
  /\ pc = at
  /\ button = b
  /\ branch' = b
  /\ my_bar' = [state |-> "shown", value |-> 0, text |-> ProgressText(b)]
  /\ response' = NoneValue
  /\ percent_complete' = 0
  /\ pc' = "loop"
  /\ UNCHANGED <<credential, cache, button, user_input_text, creative_control,
                 config, prompt, model, requests, remote_result, ggr_calls,
                 response_placeholder, errors>>

SkipBranch(at, b, next) ==
  /\ pc = at
  /\ button # b
  /\ pc' = next
  /\ UNCHANGED <<credential, cache, button, user_input_text, creative_control,
                 config, branch, percent_complete, my_bar, response, prompt,
                 model, requests, remote_result, ggr_calls,
                 response_placeholder, errors>>

IfGenerate == EnterBranch("if_generate", "comments")
SkipGenerate == SkipBranch("if_generate", "comments", "if_explain")
IfExplain == EnterBranch("if_explain", "explain")
SkipExplain == SkipBranch("if_explain", "explain", "footer")

\* One iteration of the progress loop that does not call the service.
LoopStep ==
  /\ pc = "loop"
  /\ percent_complete < BarSteps
  /\ ~IsCallStep(percent_complete)
  /\ my_bar' = [my_bar EXCEPT !.value = percent_complete + 1]
  /\ percent_complete' = percent_complete + 1
  /\ UNCHANGED <<credential, cache, pc, button, user_input_text,
                 creative_control, config, branch, response, prompt, model,
                 requests, remote_result, ggr_calls, response_placeholder,
                 errors>>

\* The iteration that calls get_gemini_response, up to load_models().
\* Without a model handle the function returns at once (line 65).
CallNoModel ==
  /\ pc = "loop"
  /\ percent_complete < BarSteps
  /\ IsCallStep(percent_complete)
  /\ LET loaded == load_models(cache, credential)
     IN  /\ loaded.handle = "None"
         /\ cache' = [set |-> TRUE, value |-> loaded]
         /\ errors' = errors \o loaded.shown
         /\ model' = loaded.handle
  /\ my_bar' = [my_bar EXCEPT !.value = percent_complete + 1]
  /\ ggr_calls' = ggr_calls + 1
  /\ prompt' = generate_prompt(user_input_text)
  /\ response' = Str(NotLoadedMessage)
  /\ percent_complete' = percent_complete + 1
  /\ UNCHANGED <<credential, pc, button, user_input_text, creative_control,
                 config, branch, requests, remote_result, response_placeholder>>

\* With a model handle, generate_content is issued and the script blocks.
CallRemote ==
  /\ pc = "loop"
  /\ percent_complete < BarSteps
  /\ IsCallStep(percent_complete)
  /\ LET loaded == load_models(cache, credential)
     IN  /\ loaded.handle # "None"
         /\ cache' = [set |-> TRUE, value |-> loaded]
         /\ errors' = errors \o loaded.shown
         /\ model' = loaded.handle
  /\ my_bar' = [my_bar EXCEPT !.value = percent_complete + 1]
  /\ ggr_calls' = ggr_calls + 1
  /\ prompt' = generate_prompt(user_input_text)
  /\ requests' = Append(requests,
                        [prompt |-> generate_prompt(user_input_text),
                         generation_config |-> config,
                         safety_settings |-> safety_settings])
  /\ pc' = "remote"
  /\ UNCHANGED <<credential, button, user_input_text, creative_control,
                 config, branch, percent_complete, response, remote_result,
                 response_placeholder>>

\* generate_content returned and response.text was read: line 63.
RemoteReturns(text) ==
  /\ pc = "remote"
  /\ remote_result' = [kind |-> "text", cls |-> "", payload |-> text]
  /\ response' = ReturnText(text)
  /\ percent_complete' = percent_complete + 1
  /\ pc' = "loop"
  /\ UNCHANGED <<credential, cache, button, user_input_text, creative_control,
                 config, branch, my_bar, prompt, model, requests, ggr_calls,
                 response_placeholder, errors>>

\* generate_content, or the read of response.text, raised: lines 66-68.
RemoteRaises(how, cls, e) ==
  /\ pc = "remote"
  /\ remote_result' = [kind |-> how, cls |-> cls, payload |-> e]
  /\ IF Caught(cls)
     THEN /\ errors' = Append(errors, ErrorMessage(e))
          /\ response' = NoneValue
          /\ percent_complete' = percent_complete + 1
          /\ pc' = "loop"
     ELSE /\ pc' = "crashed"
          /\ UNCHANGED <<errors, response, percent_complete>>
  /\ UNCHANGED <<credential, cache, button, user_input_text, creative_control,
                 config, branch, my_bar, prompt, model, requests, ggr_calls,
                 response_placeholder>>

GenerateContentRaises(cls, e) == RemoteRaises("generate_content raised", cls, e)
ResponseTextRaises(cls, e) == RemoteRaises("response.text raised", cls, e)

\* my_bar.empty(): line 231 / 245.
LoopExit ==
  /\ pc = "loop"
  /\ percent_complete >= BarSteps
  /\ my_bar' = [my_bar EXCEPT !.state = "empty"]
  /\ pc' = "check"
  /\ UNCHANGED <<credential, cache, button, user_input_text, creative_control,
                 config, branch, percent_complete, response, prompt, model,
                 requests, remote_result, ggr_calls, response_placeholder,
                 errors>>

\* if response is not None: subheader and write, lines 232-234 / 246-248.
Render ==
  /\ pc = "check"
  /\ response # NoneValue
  /\ response_placeholder' =
       response_placeholder \o
         <<[op |-> "subheader", body |-> <<Heading(branch)>>],
           [op |-> "write", body |-> response.text]>>
  /\ pc' = AfterBranch(branch)
  /\ UNCHANGED <<credential, cache, button, user_input_text, creative_control,
                 config, branch, percent_complete, my_bar, response, prompt,
                 model, requests, remote_result, ggr_calls, errors>>

Discard ==
  /\ pc = "check"
  /\ response = NoneValue
  /\ pc' = AfterBranch(branch)
  /\ UNCHANGED <<credential, cache, button, user_input_text, creative_control,
                 config, branch, percent_complete, my_bar, response, prompt,
                 model, requests, remote_result, ggr_calls,
                 response_placeholder, errors>>

\* custom_footer(): line 250; the run ends and the page waits for the user.
Footer ==
  /\ pc = "footer"
  /\ pc' = "idle"
  /\ UNCHANGED <<credential, cache, button, user_input_text, creative_control,
                 config, branch, percent_complete, my_bar, response, prompt,
                 model, requests, remote_result, ggr_calls,
                 response_placeholder, errors>>

UserStep ==
  \E text \in Snippets, cc \in {"Low", "High"}, btn \in {"none", "comments", "explain"} :
    Rerun(text, cc, btn)

RemoteStep ==
  \/ \E text \in ServiceTexts : RemoteReturns(text)
  \/ \E cls \in ExceptionClasses, e \in ErrorTexts : GenerateContentRaises(cls, e)
  \/ \E cls \in ExceptionClasses, e \in ErrorTexts : ResponseTextRaises(cls, e)

ScriptStep ==
  \/ IfGenerate
  \/ SkipGenerate
  \/ IfExplain
  \/ SkipExplain
  \/ LoopStep
  \/ CallNoModel
  \/ CallRemote
  \/ LoopExit
  \/ Render
  \/ Discard
  \/ Footer

Next == UserStep \/ RemoteStep \/ ScriptStep

Spec == Init /\ [][Next]_vars

\* The script runs to completion once started, and the remote call is
\* assumed to return or raise.
FairSpec == Spec /\ WF_vars(ScriptStep) /\ WF_vars(RemoteStep)

\* ---------------------------------------------------------------- claims

RaisedKinds == {"generate_content raised", "response.text raised"}

\* get_gemini_response has been called in this run and has returned
Returned == ggr_calls > 0 /\ pc \notin {"remote", "crashed"}

\* the button branch of this run has been left
BranchDone == branch # "none" /\ pc \in {"if_explain", "footer", "idle"}

\* C1: when load_models() yields no model handle, get_gemini_response
\* returns a failure (no text payload for the caller to render) and
\* generate_content is never invoked in that request.
C1_NoModelIsFailure ==
  (model = "None" /\ Returned) => (response = NoneValue /\ requests = <<>>)

\* C2: when generate_content or the read of response.text raises,
\* get_gemini_response shows a non-empty error message, returns None and
\* the exception does not leave the function.
C2_RemoteErrorIsFailure ==
  remote_result.kind \in RaisedKinds =>
    /\ pc # "crashed"
    /\ response = NoneValue
    /\ errors # <<>>
    /\ Len(errors[Len(errors)]) > 0

C2_Witness ==
  /\ pc = "idle"
  /\ remote_result.kind = "response.text raised"
  /\ remote_result.payload = <<>>

\* C3: for both error kinds (no model handle; the remote call raised) the
\* button press ends with an error message shown and nothing written to the
\* response output area.
C3_ErrorsLeaveOutputEmpty ==
  (BranchDone /\ (model = "None" \/ remote_result.kind \in RaisedKinds)) =>
    (errors # <<>> /\ response_placeholder = <<>>)

\* C4: when the remote call succeeds, get_gemini_response returns exactly
\* the service's text, and that same text is what is written to the output
\* area.
C4_TextVerbatim ==
  remote_result.kind = "text" =>
    /\ response = Str(remote_result.payload)
    /\ BranchDone =>
         /\ response_placeholder # <<>>
         /\ response_placeholder[Len(response_placeholder)] =
              [op |-> "write", body |-> remote_result.payload]

C4_Witness ==
  /\ pc = "idle"
  /\ remote_result.kind = "text"
  /\ Len(remote_result.payload) = 2
  /\ Len(response_placeholder) = 2

\* C5: the prompt built for the 'Explain Line by Line' action differs from
\* the one the 'Generate Code Comments' action builds for the same snippet,
\* and holds the snippet verbatim at a fixed position.
C5_ExplainPromptDiffers ==
  (branch = "explain" /\ ggr_calls > 0) =>
    /\ prompt # <<Preamble>> \o user_input_text \o <<Epilogue>>
    /\ Len(prompt) >= 1 + Len(user_input_text)
    /\ SubSeq(prompt, 2, 1 + Len(user_input_text)) = user_input_text

\* C6: in the comment action the prompt is the fixed preamble, then the
\* snippet verbatim as a contiguous run, then the fixed ending, for every
\* snippet, the empty one included.
C6_CommentPromptEmbedsSnippet ==
  (branch = "comments" /\ ggr_calls > 0) =>
    /\ prompt = <<Preamble>> \o user_input_text \o <<Epilogue>>
    /\ \E i \in 1..Len(prompt) :
         SubSeq(prompt, i + 1, i + Len(user_input_text)) = user_input_text

C6_Witness ==
  /\ branch = "comments"
  /\ ggr_calls > 0
  /\ user_input_text = <<"{code}", "x">>

\* C7: the temperature is 0.30 for Low and 0.95 for High, max_output_tokens
\* is 2048, and that configuration is the one handed to generate_content
\* by either action.
C7_ConfigFromCreativity ==
  /\ config.temperature = (IF creative_control = "Low" THEN 30 ELSE 95)
  /\ config.max_output_tokens = 2048
  /\ DOMAIN config = {"temperature", "max_output_tokens"}
  /\ \A k \in 1..Len(requests) : requests[k].generation_config = config

C7_Witness ==
  /\ branch = "explain"
  /\ creative_control = "High"
  /\ Len(requests) = 1

\* C8: one button press calls get_gemini_response exactly once and
\* generate_content at most once; nothing is retried after a failure.
C8_SingleAttempt ==
  /\ ggr_calls <= 1
  /\ Len(requests) <= 1
  /\ branch = "none" => ggr_calls = 0
  /\ (branch # "none" /\ pc \in {"check", "if_explain", "footer", "idle"}) =>
       ggr_calls = 1

C8_Witness ==
  /\ pc = "idle"
  /\ remote_result.kind = "generate_content raised"
  /\ ggr_calls = 1
  /\ Len(requests) = 1

\* C9: the request lifecycle is Idle -> Requesting -> {Succeeded | Failed}
\* -> Idle with no other transition, and every request reaches Succeeded or
\* Failed once the remote call returns or raises.
Phase ==
  IF pc \notin {"loop", "remote", "check"} THEN "Idle"
  ELSE IF ~Returned THEN "Requesting"
  ELSE IF response = NoneValue THEN "Failed"
  ELSE "Succeeded"

PhaseTransitions ==
  {<<"Idle", "Requesting">>, <<"Requesting", "Succeeded">>,
   <<"Requesting", "Failed">>, <<"Succeeded", "Idle">>, <<"Failed", "Idle">>}

C9_Lifecycle ==
  /\ [][Phase' # Phase => <<Phase, Phase'>> \in PhaseTransitions]_vars
  /\ (Phase = "Requesting") ~> (Phase \in {"Succeeded", "Failed"})

C9_Witness ==
  /\ Phase = "Failed"
  /\ pc = "check"
  /\ remote_result.kind = "generate_content raised"

\* C10: the bar steps through 1..100 in order, get_gemini_response is called
\* at the step where the bar shows 99 (loop index 98), the bar reaches 100
\* and is cleared, and only then is the result rendered or discarded,
\* whether the call succeeded or failed.
C10_ProgressOrder ==
  /\ [][/\ (my_bar.state = "shown" /\ my_bar' # my_bar) =>
             \/ my_bar' = [my_bar EXCEPT !.value = my_bar.value + 1]
             \/ my_bar.value = 100 /\ my_bar' = [my_bar EXCEPT !.state = "empty"]
             \/ pc' = "if_generate"
        /\ (my_bar.state # "shown" /\ my_bar'.state = "shown") => my_bar'.value = 0
        /\ ggr_calls' # ggr_calls =>
             \/ ggr_calls' = 0
             \/ percent_complete = 98 /\ my_bar.value = 98 /\ my_bar'.value = 99
        /\ (response_placeholder' # response_placeholder \/ pc = "check") =>
             \/ pc' = "if_generate"
             \/ my_bar.state = "empty" /\ my_bar.value = 100]_vars
  /\ [](pc = "remote" => my_bar.state = "shown" /\ my_bar.value = 99)
  /\ [](BranchDone => my_bar.state = "empty" /\ my_bar.value = 100)

C10_Witness ==
  /\ pc = "idle"
  /\ my_bar = [state |-> "empty", value |-> 100, text |-> "Generating Line-by-Line Explanation..."]
  /\ remote_result.kind = "response.text raised"
  /\ response_placeholder = <<>>

====
